---- MODULE Spec2Model ----
(***************************************************************************)
(* winmsg: decoding of the (msg, w_param, l_param) window-message triple   *)
(* into WindowEvent / WindowMessage, and the as_key / as_mouse_button      *)
(* summaries (src/src/lib.rs).                                             *)
(*                                                                         *)
(* Representation.  TLC integers are 32-bit signed, so machine values are  *)
(* kept as little-endian sequences of 16-bit half-words:                   *)
(*   u16 / i16 bits : <<h>>                                                *)
(*   UINT (u32)     : <<lo, hi>>                                           *)
(*   WPARAM, LPARAM, u64, pointers (64-bit host) : <<h0, h1, h2, h3>>      *)
(* A memory image is the sequence of the half-words of an object, so the   *)
(* byte at offset 2k is the low byte of element k+1.  Every field of the   *)
(* program is at least 2-byte aligned.  The model is of a 64-bit host      *)
(* (target_pointer_width = "64", where size_of::<RawEvent>() = 24).        *)
(***************************************************************************)
EXTENDS Integers, Sequences, FiniteSets, TLC

VARIABLES msg, w_param, l_param, pc, event, key, mouse, info, ncsize

vars == <<msg, w_param, l_param, pc, event, key, mouse, info, ncsize>>

(***************************************************************************)
(* Bounds of the input space                                               *)
(***************************************************************************)
\* small parameter half-words 0..MaxSmall are enumerated exhaustively
MaxSmall == 2

(***************************************************************************)
(* Fixed-width arithmetic on half-word sequences                           *)
(***************************************************************************)
\* the u32 with numeric value n (0 <= n < 2^31), as <<lo, hi>>
U32(n) == <<n % 65536, n \div 65536>>

\* a <= b for u32 values
Le32(a, b) == \/ a[2] < b[2]
              \/ a[2] = b[2] /\ a[1] <= b[1]

\* a within the inclusive range lo..=hi (a Rust range pattern)
InRange32(a, lo, hi) == Le32(lo, a) /\ Le32(a, hi)

\* a - b on u32 (callers guarantee a >= b, as the match arms do)
Sub32(a, b) ==
    LET lo == a[1] - b[1]
        borrow == IF lo < 0 THEN 1 ELSE 0
    IN  <<(lo + 65536) % 65536, (a[2] - b[2] - borrow + 65536) % 65536>>

\* a u16 bit pattern read as i16
ToI16(h) == IF h >= 32768 THEN h - 65536 ELSE h

RECURSIVE Pow2(_)
Pow2(n) == IF n = 0 THEN 1 ELSE 2 * Pow2(n - 1)

\* bit i (0 = least significant) of a half-word sequence
Bit(v, i) == (v[(i \div 16) + 1] \div Pow2(i % 16)) % 2

(***************************************************************************)
(* RawEvent (lib.rs 7-13) and its repr(C) memory image on a 64-bit host:   *)
(* msg at byte 0, four padding bytes at 4, w_param at 8, l_param at 16.    *)
(***************************************************************************)
RawEvent(m, w, l) == [msg |-> m, w_param |-> w, l_param |-> l]

\* the 24 bytes of a RawEvent; pad is what the 4 never-written padding
\* bytes happen to hold
RawEventImage(raw, pad) == raw.msg \o pad \o raw.w_param \o raw.l_param

(***************************************************************************)
(* WindowMessage (lib.rs 215-625): a repr(u32) enum.  Each variant is laid *)
(* out as a repr(C) struct whose first field is the u32 discriminant,      *)
(* followed by the variant's fields in declaration order.                  *)
(***************************************************************************)
\* <<variant, discriminant>> in declaration order (values of the winuser
\* WM_* constants the source names)
WindowMessageTable ==
    << <<"Null", \H0000>>, <<"Create", \H0001>>, <<"Destroy", \H0002>>,
       <<"Move", \H0003>>, <<"Size", \H0005>>, <<"Activate", \H0006>>,
       <<"SetFocus", \H0007>>, <<"KillFocus", \H0008>>, <<"Enable", \H000A>>,
       <<"SetRedraw", \H000B>>, <<"SetText", \H000C>>, <<"GetText", \H000D>>,
       <<"GetTextLength", \H000E>>, <<"Paint", \H000F>>, <<"Close", \H0010>>,
       <<"QueryEndSession", \H0011>>, <<"QueryOpen", \H0013>>,
       <<"EndSession", \H0016>>, <<"Quit", \H0012>>,
       <<"EraseBackground", \H0014>>, <<"SysColorChange", \H0015>>,
       <<"ShowWindow", \H0018>>, <<"SettingChange", \H001A>>,
       <<"DevModeChange", \H001B>>, <<"ActivateApp", \H001C>>,
       <<"FontChange", \H001D>>, <<"TimeChange", \H001E>>,
       <<"CancelMode", \H001F>>, <<"SetCursor", \H0020>>,
       <<"MouseActivate", \H0021>>, <<"ChildActivate", \H0022>>,
       <<"QueueSync", \H0023>>, <<"GetMinMaxInfo", \H0024>>,
       <<"PaintIcon", \H0026>>, <<"IconEraseBackground", \H0027>>,
       <<"NextDialogCtl", \H0028>>, <<"SpoolerStatus", \H002A>>,
       <<"DrawItem", \H002B>>, <<"MeasureItem", \H002C>>,
       <<"DeleteItem", \H002D>>, <<"VKeyToItem", \H002E>>,
       <<"CharToItem", \H002F>>, <<"SetFont", \H0030>>,
       <<"GetFont", \H0031>>, <<"SetHotkey", \H0032>>,
       <<"GetHotkey", \H0033>>, <<"QueryDragIcon", \H0037>>,
       <<"CompareItem", \H0039>>, <<"GetObject", \H003D>>,
       <<"Compacting", \H0041>>, <<"CommNotify", \H0044>>,
       <<"WindowPosChanging", \H0046>>, <<"WindowPosChanged", \H0047>>,
       <<"Power", \H0048>>, <<"CopyData", \H004A>>,
       <<"CancelJournal", \H004B>>, <<"Notify", \H004E>>,
       <<"InputLangChangeRequest", \H0050>>, <<"InputLangChange", \H0051>>,
       <<"TCard", \H0052>>, <<"Help", \H0053>>, <<"UserChanged", \H0054>>,
       <<"NotifyFormat", \H0055>>, <<"ContextMenu", \H007B>>,
       <<"StyleChanging", \H007C>>, <<"StyleChanged", \H007D>>,
       <<"DisplayChange", \H007E>>, <<"GetIcon", \H007F>>,
       <<"SetIcon", \H0080>>, <<"NcCreate", \H0081>>,
       <<"NcDestroy", \H0082>>, <<"NcCalcSize", \H0083>>,
       <<"NcHitTest", \H0084>>, <<"NcPaint", \H0085>>,
       <<"NcActivate", \H0086>>, <<"GetDlgCode", \H0087>>,
       <<"SyncPaint", \H0088>>, <<"NcMouseMove", \H00A0>>,
       <<"NclButtonDown", \H00A1>>, <<"NclButtonUp", \H00A2>>,
       <<"NclButtonDblClk", \H00A3>>, <<"NcRButtonDown", \H00A4>>,
       <<"NcRButtonUp", \H00A5>>, <<"NcRButtonDblClk", \H00A6>>,
       <<"NcMButtonDown", \H00A7>>, <<"NcMButtonUp", \H00A8>>,
       <<"NcMButtonDblClk", \H00A9>>, <<"NcXButtonDown", \H00AB>>,
       <<"NcXButtonUp", \H00AC>>, <<"NcXButtonDblClk", \H00AD>>,
       <<"InputDeviceChange", \H00FE>>, <<"Input", \H00FF>>,
       <<"KeyDown", \H0100>>, <<"KeyUp", \H0101>>, <<"Char", \H0102>>,
       <<"DeadChar", \H0103>>, <<"SysKeyDown", \H0104>>,
       <<"SysKeyUp", \H0105>>, <<"SysChar", \H0106>>,
       <<"SysDeadChar", \H0107>>, <<"UniChar", \H0109>>,
       <<"ImeStartComposition", \H010D>>, <<"ImeEndComposition", \H010E>>,
       <<"ImeComposition", \H010F>>, <<"InitDialog", \H0110>>,
       <<"Command", \H0111>>, <<"SysCommand", \H0112>>, <<"TIMER", \H0113>>,
       <<"HScroll", \H0114>>, <<"VScroll", \H0115>>, <<"InitMenu", \H0116>>,
       <<"InitMenuPopup", \H0117>>, <<"Gesture", \H0119>>,
       <<"GestureNotify", \H011A>>, <<"MenuSelect", \H011F>>,
       <<"MenuChar", \H0120>>, <<"EnterIdle", \H0121>>,
       <<"MenuRButtonUp", \H0122>>, <<"MenuDrag", \H0123>>,
       <<"MenuGetObject", \H0124>>, <<"UninitMenuPopup", \H0125>>,
       <<"MenuCommand", \H0126>>, <<"ChangeUiState", \H0127>>,
       <<"UpdateUiState", \H0128>>, <<"QueryUiState", \H0129>>,
       <<"CtlColorMsgBox", \H0132>>, <<"CtlColorEdit", \H0133>>,
       <<"CtlColorListBox", \H0134>>, <<"CtlColorBtn", \H0135>>,
       <<"CtlColorDlg", \H0136>>, <<"CtlColorScrollbar", \H0137>>,
       <<"CtlColorStatic", \H0138>>, <<"MouseMove", \H0200>>,
       <<"LButtonDown", \H0201>>, <<"LButtonUp", \H0202>>,
       <<"LButtonDblClk", \H0203>>, <<"RButtonDown", \H0204>>,
       <<"RButtonUp", \H0205>>, <<"RButtonDblClk", \H0206>>,
       <<"MButtonDown", \H0207>>, <<"MButtonUp", \H0208>>,
       <<"MButtonDblClk", \H0209>>, <<"MouseWheel", \H020A>>,
       <<"XButtonDown", \H020B>>, <<"XButtonUp", \H020C>>,
       <<"XButtonDblClk", \H020D>>, <<"NcUahDrawCaption", \H00AE>>,
       <<"NcUahDrawFrame", \H00AF>>, <<"MouseHWheel", \H020E>>,
       <<"ParentNotify", \H0210>>, <<"EnterMenuLoop", \H0211>>,
       <<"ExitMenuLoop", \H0212>>, <<"NextMenu", \H0213>>,
       <<"Sizing", \H0214>>, <<"CaptureChanged", \H0215>>,
       <<"Moving", \H0216>>, <<"PowerBroadcast", \H0218>>,
       <<"DeviceChange", \H0219>>, <<"MdiCreate", \H0220>>,
       <<"MdiDestroy", \H0221>>, <<"MdiActivate", \H0222>>,
       <<"MdiRestore", \H0223>>, <<"MdiNext", \H0224>>,
       <<"MdiMaximize", \H0225>>, <<"MdiTile", \H0226>>,
       <<"MdiCascade", \H0227>>, <<"MdiIconArrange", \H0228>>,
       <<"MdiGetActive", \H0229>>, <<"MdiSetMenu", \H0230>>,
       <<"EnterSizeMove", \H0231>>, <<"ExitSizeMove", \H0232>>,
       <<"DropFiles", \H0233>>, <<"MdiRefreshMenu", \H0234>>,
       <<"PointerDeviceChange", \H0238>>, <<"PointerDeviceInRange", \H0239>>,
       <<"PointerDeviceOutOfRange", \H023A>>, <<"Touch", \H0240>>,
       <<"NcPointerUpdate", \H0241>>, <<"NcPointerDown", \H0242>>,
       <<"NcPointerUp", \H0243>>, <<"PointerUpdate", \H0245>>,
       <<"POINTERDOWN", \H0246>>, <<"POINTERUP", \H0247>>,
       <<"POINTERENTER", \H0249>>, <<"POINTERLEAVE", \H024A>>,
       <<"PointerActivate", \H024B>>, <<"PointerCaptureChanged", \H024C>>,
       <<"TouchHitTesting", \H024D>>, <<"PointerWheel", \H024E>>,
       <<"PointerHWheel", \H024F>>, <<"PointerRoutedTo", \H0251>>,
       <<"PointerRoutedAway", \H0252>>, <<"PointerRoutedReleased", \H0253>>,
       <<"ImeSetContext", \H0281>>, <<"ImeNotify", \H0282>>,
       <<"ImeControl", \H0283>>, <<"ImeCompositionFull", \H0284>>,
       <<"ImeSelect", \H0285>>, <<"ImeChar", \H0286>>,
       <<"ImeRequest", \H0288>>, <<"ImeKeydown", \H0290>>,
       <<"ImeKeyup", \H0291>>, <<"MouseHover", \H02A1>>,
       <<"MouseLeave", \H02A3>>, <<"NcMouseHover", \H02A0>>,
       <<"NcMouseLeave", \H02A2>>, <<"WtsSessionChange", \H02B1>>,
       <<"TabletFirst", \H02C0>>, <<"TabletLast", \H02DF>>,
       <<"DpiChanged", \H02E0>>, <<"DpiChangedBeforeParent", \H02E2>>,
       <<"DpiChangedAfterParent", \H02E3>>, <<"GetDpiScaledSize", \H02E4>>,
       <<"Cut", \H0300>>, <<"Copy", \H0301>>, <<"Paste", \H0302>>,
       <<"Clear", \H0303>>, <<"Undo", \H0304>>, <<"RenderFormat", \H0305>>,
       <<"RenderAllFormats", \H0306>>, <<"DestroyClipboard", \H0307>>,
       <<"DrawClipboard", \H0308>>, <<"PaintClipboard", \H0309>>,
       <<"VScrollClipboard", \H030A>>, <<"SizeClipboard", \H030B>>,
       <<"AskCbFormatName", \H030C>>, <<"ChangeCbChain", \H030D>>,
       <<"HScrollClipboard", \H030E>>, <<"QueryNewPalette", \H030F>>,
       <<"PaletteIsChanging", \H0310>>, <<"PaletteChanged", \H0311>>,
       <<"Hotkey", \H0312>>, <<"Print", \H0317>>, <<"PrintClient", \H0318>>,
       <<"AppCommand", \H0319>>, <<"ThemeChanged", \H031A>>,
       <<"ClipboardUpdate", \H031D>>, <<"DwmCompositionChanged", \H031E>>,
       <<"DwmNcRenderingChanged", \H031F>>,
       <<"DwmColorizationColorChanged", \H0320>>,
       <<"DwmWindowMaximizedChange", \H0321>>,
       <<"DwmSendIconIcThumbnail", \H0323>>,
       <<"DwmSendIconIcLivePreviewBitmap", \H0326>>,
       <<"GetTitleBarInfoEx", \H033F>>, <<"HandHeldFirst", \H0358>>,
       <<"HandHeldLast", \H035F>>, <<"AfxFirst", \H0360>>,
       <<"AfxLast", \H037F>>, <<"PenWinFirst", \H0380>>,
       <<"PenWinLast", \H038F>> >>

\* the fields of the variants that carry a payload, <<name, type>> in
\* declaration order; WPARAM = usize, LPARAM = isize, WORD = u16, handles
\* and Option<NonNull<_>> are pointer-sized
PayloadTable ==
    << <<"Create", << <<"_unused", "usize">>, <<"data", "ptr">> >> >>,
       <<"Move", << <<"_unused", "usize">>, <<"x", "i16">>, <<"y", "i16">>, <<"_unused2", "u32">> >> >>,
       <<"Size", << <<"resizing", "WindowResizing">>, <<"width", "i16">>, <<"height", "i16">>, <<"_unused", "u32">> >> >>,
       <<"Activate", << <<"activated", "u16">>, <<"state", "WindowActivation">>, <<"window", "ptr">> >> >>,
       <<"SetFocus", << <<"window", "ptr">> >> >>,
       <<"EraseBackground", << <<"dc", "ptr">>, <<"_unused", "isize">> >> >>,
       <<"ShowWindow", << <<"shown", "usize">>, <<"status", "isize">> >> >>,
       <<"ActivateApp", << <<"activated", "usize">>, <<"thread", "isize">> >> >>,
       <<"SetCursor", << <<"window", "ptr">>, <<"hit_test", "u16">>, <<"trigger_message", "u16">>, <<"_unused", "u32">> >> >>,
       <<"MouseActivate", << <<"top_window", "ptr">>, <<"activation", "isize">> >> >>,
       <<"GetMinMaxInfo", << <<"_unused", "usize">>, <<"data", "ptr">> >> >>,
       <<"WindowPosChanging", << <<"_unused", "usize">>, <<"data", "ptr">> >> >>,
       <<"WindowPosChanged", << <<"_unused", "usize">>, <<"data", "ptr">> >> >>,
       <<"StyleChanging", << <<"style", "GwlStyle">>, <<"_unused", "u32">>, <<"data", "ptr">> >> >>,
       <<"StyleChanged", << <<"style", "GwlStyle">>, <<"_unused", "u32">>, <<"data", "ptr">> >> >>,
       <<"GetIcon", << <<"size", "IconSize">>, <<"dpi", "isize">> >> >>,
       <<"SetIcon", << <<"size", "IconSize">>, <<"icon", "ptr">> >> >>,
       <<"NcCalcSize", << <<"params", "NcSizeParams">> >> >>,
       <<"NcHitTest", << <<"_unused", "usize">>, <<"pos", "MousePos">> >> >>,
       <<"NcPaint", << <<"update_region", "usize">>, <<"_unused", "isize">> >> >>,
       <<"NcActivate", << <<"update_icon", "usize">>, <<"update_region", "isize">> >> >>,
       <<"NcMouseMove", << <<"hit_test", "usize">>, <<"pos", "MousePos">> >> >>,
       <<"KeyDown", << <<"key_code", "usize">>, <<"info", "KeyInfo">> >> >>,
       <<"KeyUp", << <<"key_code", "usize">>, <<"info", "KeyInfo">> >> >>,
       <<"SysKeyDown", << <<"key_code", "usize">>, <<"info", "KeyInfo">> >> >>,
       <<"SysKeyUp", << <<"key_code", "usize">>, <<"info", "KeyInfo">> >> >>,
       <<"MouseMove", << <<"modifiers", "usize">>, <<"pos", "MousePos">> >> >>,
       <<"LButtonDown", << <<"modifiers", "usize">>, <<"pos", "MousePos">> >> >>,
       <<"LButtonUp", << <<"modifiers", "usize">>, <<"pos", "MousePos">> >> >>,
       <<"LButtonDblClk", << <<"modifiers", "usize">>, <<"pos", "MousePos">> >> >>,
       <<"RButtonDown", << <<"modifiers", "usize">>, <<"pos", "MousePos">> >> >>,
       <<"RButtonUp", << <<"modifiers", "usize">>, <<"pos", "MousePos">> >> >>,
       <<"RButtonDblClk", << <<"modifiers", "usize">>, <<"pos", "MousePos">> >> >>,
       <<"MButtonDown", << <<"modifiers", "usize">>, <<"pos", "MousePos">> >> >>,
       <<"MButtonUp", << <<"modifiers", "usize">>, <<"pos", "MousePos">> >> >>,
       <<"MButtonDblClk", << <<"modifiers", "usize">>, <<"pos", "MousePos">> >> >>,
       <<"MouseWheel", << <<"modifiers", "u16">>, <<"delta", "u16">>, <<"pos", "MousePos">> >> >>,
       <<"XButtonDown", << <<"modifiers", "u16">>, <<"button", "u16">>, <<"pos", "MousePos">> >> >>,
       <<"XButtonUp", << <<"modifiers", "u16">>, <<"button", "u16">>, <<"pos", "MousePos">> >> >>,
       <<"XButtonDblClk", << <<"modifiers", "u16">>, <<"button", "u16">>, <<"pos", "MousePos">> >> >>,
       <<"NcUahDrawCaption", << <<"w", "usize">>, <<"l", "isize">> >> >>,
       <<"NcUahDrawFrame", << <<"w", "usize">>, <<"l", "isize">> >> >>,
       <<"MouseHWheel", << <<"modifiers", "u16">>, <<"delta", "u16">>, <<"pos", "MousePos">> >> >>,
       <<"CaptureChanged", << <<"_unused", "usize">>, <<"window", "ptr">> >> >>,
       <<"PowerBroadcast", << <<"event", "PowerEvent">>, <<"data", "ptr">> >> >>,
       <<"ImeSetContext", << <<"active", "usize">>, <<"display_options", "isize">> >> >>,
       <<"ImeNotify", << <<"window", "ptr">>, <<"command", "isize">> >> >>,
       <<"MouseHover", << <<"modifiers", "usize">>, <<"pos", "MousePos">> >> >> >>

Variants == {WindowMessageTable[i][1] : i \in DOMAIN WindowMessageTable}

Discriminants == {WindowMessageTable[i][2] : i \in DOMAIN WindowMessageTable}

\* variant -> discriminant
DiscriminantTable ==
    [v \in Variants |->
        WindowMessageTable[CHOOSE j \in DOMAIN WindowMessageTable :
                               WindowMessageTable[j][1] = v][2]]

\* discriminant -> variant
VariantTable ==
    [d \in Discriminants |->
        WindowMessageTable[CHOOSE j \in DOMAIN WindowMessageTable :
                               WindowMessageTable[j][2] = d][1]]

\* the discriminant of a variant
DiscriminantOf(v) == DiscriminantTable[v]

\* variants numbered by position, as if the explicit discriminants were absent
VariantOf_positional(d) == WindowMessageTable[(d % Len(WindowMessageTable)) + 1][1]

\* the variant a discriminant names
VariantOf(d) == VariantTable[d]

PayloadVariants == {PayloadTable[i][1] : i \in DOMAIN PayloadTable}

\* variant -> its fields
FieldTable ==
    [v \in PayloadVariants |->
        PayloadTable[CHOOSE i \in DOMAIN PayloadTable : PayloadTable[i][1] = v][2]]

FieldsOf(v) == IF v \in PayloadVariants THEN FieldTable[v] ELSE << >>

\* size and alignment in bytes of a field type (64-bit host)
SizeOf(t) ==
    CASE t \in {"u16", "i16", "WindowActivation"} -> 2
      [] t \in {"u32", "i32", "GwlStyle"} -> 4
      [] t \in {"usize", "isize", "u64", "ptr", "KeyInfo", "MousePos",
                "WindowResizing", "PowerEvent", "IconSize"} -> 8
      [] t = "NcSizeParams" -> 16

AlignOf(t) == IF t = "NcSizeParams" THEN 8 ELSE SizeOf(t)

AlignUp(off, a) == ((off + a - 1) \div a) * a

\* repr(C): byte offset of the i-th field of a variant, after the u32 tag
RECURSIVE FieldOffset(_, _)
FieldOffset(fields, i) ==
    LET prevEnd == IF i = 1 THEN 4
                   ELSE FieldOffset(fields, i - 1) + SizeOf(fields[i - 1][2])
    IN  AlignUp(prevEnd, AlignOf(fields[i][2]))

\* the half-words of an image from byte offset off, size bytes long
ReadBytes(mem, off, size) == SubSeq(mem, (off \div 2) + 1, (off + size) \div 2)

\* the bits of field name of typed message m
Field(m, name) ==
    LET fields == FieldsOf(m.variant)
        i == CHOOSE j \in DOMAIN fields : fields[j][1] = name
    IN  ReadBytes(m.mem, FieldOffset(fields, i), SizeOf(fields[i][2]))

\* x and y declared in the opposite order
MousePos_swapped(bits) == [x |-> ToI16(bits[2]), y |-> ToI16(bits[1])]

\* MousePos (lib.rs 34-39): x: i16 at byte 0, y: i16 at byte 2
MousePos(bits) == [x |-> ToI16(bits[1]), y |-> ToI16(bits[2])]

(***************************************************************************)
(* The closed sets of the field enumerations, as bit patterns of their     *)
(* repr type (values of the winuser constants the source names).           *)
(***************************************************************************)
\* WindowActivation (repr(u16)): WA_ACTIVE, WA_CLICKACTIVE, WA_INACTIVE
WindowActivation == {<<1>>, <<2>>, <<0>>}

\* WindowResizing (repr(usize)): SIZE_MAXHIDE, SIZE_MAXIMIZED, SIZE_MAXSHOW,
\* SIZE_MINIMIZED, SIZE_RESTORED
WindowResizing == {<<n, 0, 0, 0>> : n \in {4, 2, 3, 1, 0}}

\* PowerEvent (repr(usize)): PBT_APMPOWERSTATUSCHANGE, PBT_APMRESUMEAUTOMATIC,
\* PBT_APMRESUMESUSPEND, PBT_APMSUSPEND, PBT_POWERSETTINGCHANGE
PowerEvent == {<<n, 0, 0, 0>> : n \in {\H000A, \H0012, \H0007, \H0004, \H8013}}

\* GwlStyle (repr(i32)): GWL_EXSTYLE = -20, GWL_STYLE = -16
GwlStyle == {<<\HFFEC, \HFFFF>>, <<\HFFF0, \HFFFF>>}

\* <<variant, field, closed set>> of the fields of type WindowResizing,
\* WindowActivation, PowerEvent and GwlStyle
EnumFields ==
    { <<"Size", "resizing", WindowResizing>>,
      <<"Activate", "state", WindowActivation>>,
      <<"PowerBroadcast", "event", PowerEvent>>,
      <<"StyleChanging", "style", GwlStyle>>,
      <<"StyleChanged", "style", GwlStyle>> }

(***************************************************************************)
(* KeyInfo (lib.rs 60-71): bitfield accessors over a u64                   *)
(***************************************************************************)
\* bits msb..lsb of v as an unsigned number (the getter of a bitfield range)
RECURSIVE BitRange(_, _, _)
BitRange(v, msb, lsb) ==
    IF msb < lsb THEN 0
    ELSE Bit(v, lsb) + 2 * BitRange(v, msb, lsb + 1)

repeat_count(v) == BitRange(v, 15, 0)

\* a scan code range one bit too wide
scan_code_wide(v) == BitRange(v, 24, 16)

scan_code(v) == BitRange(v, 23, 16)

extended(v) == Bit(v, 24) = 1

context_code(v) == Bit(v, 29) = 1

previous_state(v) == Bit(v, 30) = 1

transition_state(v) == Bit(v, 31) = 1

(***************************************************************************)
(* WindowEvent::parse (lib.rs 183-213)                                     *)
(***************************************************************************)
WM_USER == \H0400

WM_APP == \H8000

\* the first arm written 0..=WM_USER (an off-by-one upper bound)
WM_USER_1_inclusive == WM_USER

WM_USER_1 == WM_USER - 1

WM_APP_1 == WM_APP - 1

WM_STRING == \HC000

WM_STRING_1 == WM_STRING - 1

WM_RESERVED == \HFFFF

WM_RESERVED_1 == WM_RESERVED - 1

\* the u32 0xFFFFFFFF
UINT_MAX == <<\HFFFF, \HFFFF>>

KeyVariants == {"SysKeyUp", "KeyUp", "SysKeyDown", "KeyDown"}

MouseButtonVariants ==
    {"LButtonDown", "LButtonUp", "LButtonDblClk",
     "RButtonDown", "RButtonUp", "RButtonDblClk",
     "MButtonDown", "MButtonUp", "MButtonDblClk",
     "XButtonDown", "XButtonUp", "XButtonDblClk"}

\* what the four padding bytes of a RawEvent may hold: they are never
\* written, so any bits (a bounded sample of them)
PadBits == {<<0, 0>>, <<\H20, 1>>, <<\HFFF0, \HFFFF>>}

\* which variant a u32 tag is read as.  A discriminant names its variant.
\* Any other tag is no value of the enum (undefined behaviour): a match on
\* it may take any of its arms or none ("Invalid").
TagReadings(tag) ==
    IF tag[2] = 0 /\ tag[1] \in Discriminants
    THEN {VariantOf(tag[1])}
    ELSE {"Invalid"} \cup KeyVariants \cup MouseButtonVariants

\* UWM { raw }.typed (lib.rs 15-19, 193-197): the bytes of the RawEvent read as
\* a WindowMessage
UnionRead(raw) ==
    {[variant |-> v, mem |-> RawEventImage(raw, pad)] :
        v \in TagReadings(raw.msg), pad \in PadBits}

\* the set of values parse may return
parse(m, w, l) ==
    IF InRange32(m, U32(0), U32(WM_USER_1))
    THEN {[kind |-> "Message", typed |-> t] : t \in UnionRead(RawEvent(m, w, l))}
    ELSE IF InRange32(m, U32(WM_USER), U32(WM_APP_1))
    THEN {[kind |-> "User", raw |-> RawEvent(Sub32(m, U32(WM_USER)), w, l)]}
    ELSE IF InRange32(m, U32(WM_APP), U32(WM_STRING_1))
    THEN {[kind |-> "App", raw |-> RawEvent(Sub32(m, U32(WM_APP)), w, l)]}
    ELSE IF InRange32(m, U32(WM_STRING), U32(WM_RESERVED_1))
    THEN {[kind |-> "String", raw |-> RawEvent(Sub32(m, U32(WM_APP)), w, l)]}
    ELSE {[kind |-> "Reserved", raw |-> RawEvent(Sub32(m, U32(WM_RESERVED)), w, l)]}

(***************************************************************************)
(* impl WindowMessage (lib.rs 627-715)                                     *)
(***************************************************************************)
None == [some |-> FALSE]

Some(v) == [some |-> TRUE, val |-> v]

\* the sys and up flags exchanged
KeyMessage_swapped(m, isSys, isUp) ==
    [code |-> Field(m, "key_code"), info |-> Field(m, "info"),
     sys |-> isUp, up |-> isSys]

KeyMessage(m, isSys, isUp) ==
    [code |-> Field(m, "key_code"), info |-> Field(m, "info"),
     sys |-> isSys, up |-> isUp]

\* the fall-through arm returning a KeyMessage built from the two words
as_key_greedy(m) ==
    IF m.variant \in {"SysKeyUp", "SysKeyDown"}
    THEN Some(KeyMessage(m, TRUE, m.variant = "SysKeyUp"))
    ELSE Some([code |-> ReadBytes(m.mem, 8, 8), info |-> ReadBytes(m.mem, 16, 8),
               sys |-> FALSE, up |-> m.variant = "KeyUp"])

as_key(m) ==
    CASE m.variant = "SysKeyUp"   -> Some(KeyMessage(m, TRUE, TRUE))
      [] m.variant = "KeyUp"      -> Some(KeyMessage(m, FALSE, TRUE))
      [] m.variant = "SysKeyDown" -> Some(KeyMessage(m, TRUE, FALSE))
      [] m.variant = "KeyDown"    -> Some(KeyMessage(m, FALSE, FALSE))
      [] OTHER -> None

\* the L/R/M arms: modifiers is a WPARAM
MouseButtonMessage(m, act, btn) ==
    [action |-> act, button |-> <<btn>>,
     pos |-> MousePos(Field(m, "pos")), modifiers |-> Field(m, "modifiers")]

\* the X arms: button X(button), modifiers a WORD widened to WPARAM
XButtonMessage(m, act) ==
    [action |-> act, button |-> <<"X", Field(m, "button")[1]>>,
     pos |-> MousePos(Field(m, "pos")),
     modifiers |-> Field(m, "modifiers") \o <<0, 0, 0>>]

as_mouse_button(m) ==
    CASE m.variant = "LButtonDown"   -> Some(MouseButtonMessage(m, "Down", "Left"))
      [] m.variant = "LButtonUp"     -> Some(MouseButtonMessage(m, "Up", "Left"))
      [] m.variant = "LButtonDblClk" -> Some(MouseButtonMessage(m, "DoubleClick", "Left"))
      [] m.variant = "RButtonDown"   -> Some(MouseButtonMessage(m, "Down", "Right"))
      [] m.variant = "RButtonUp"     -> Some(MouseButtonMessage(m, "Up", "Right"))
      [] m.variant = "RButtonDblClk" -> Some(MouseButtonMessage(m, "DoubleClick", "Right"))
      [] m.variant = "MButtonDown"   -> Some(MouseButtonMessage(m, "Down", "Middle"))
      [] m.variant = "MButtonUp"     -> Some(MouseButtonMessage(m, "Up", "Middle"))
      [] m.variant = "MButtonDblClk" -> Some(MouseButtonMessage(m, "DoubleClick", "Middle"))
      [] m.variant = "XButtonDown"   -> Some(XButtonMessage(m, "Down"))
      [] m.variant = "XButtonUp"     -> Some(XButtonMessage(m, "Up"))
      [] m.variant = "XButtonDblClk" -> Some(XButtonMessage(m, "DoubleClick"))
      [] OTHER -> None

(***************************************************************************)
(* NcSizeParams (lib.rs 150-165): a repr(usize) enum of 16 bytes, the      *)
(* usize discriminant at byte 0 and the variant's data pointer at byte 8.  *)
(***************************************************************************)
\* Option<NonNull<T>>: the null address is None, any other is Some(address)
OptionNonNull(bits) == IF bits = <<0, 0, 0, 0>> THEN None ELSE Some(bits)

\* which variant a usize discriminant is read as: TRUE (1) names
\* ValidClientArea and FALSE (0) names Rect.  Any other bits are no value of
\* the enum (undefined behaviour): a match on them may take either arm or
\* none ("Invalid").
NcSizeCases(tag) ==
    IF tag = <<1, 0, 0, 0>> THEN {"ValidClientArea"}
    ELSE IF tag = <<0, 0, 0, 0>> THEN {"Rect"}
    ELSE {"Invalid", "ValidClientArea", "Rect"}

\* the values the 16 bytes of a params field may be matched as
NcSizeParams(bits) ==
    {[case |-> c, data |-> OptionNonNull(ReadBytes(bits, 8, 8))] :
        c \in NcSizeCases(ReadBytes(bits, 0, 8))}

\* all six accessors of a KeyInfo
KeyInfoFields(v) ==
    [repeat_count |-> repeat_count(v), scan_code |-> scan_code(v),
     extended |-> extended(v), context_code |-> context_code(v),
     previous_state |-> previous_state(v),
     transition_state |-> transition_state(v)]

(***************************************************************************)
(* The checked inputs                                                      *)
(***************************************************************************)
SmallHalves == 0 .. MaxSmall

\* identifiers of the System band that are no discriminant
UnknownIds == {\H0004, \H0009, \H03FF}

MsgIds ==
    {U32(d) : d \in Discriminants \cup UnknownIds}
    \cup {U32(n) : n \in {\H0400, \H0407, \H7FFF, \H8000, \H8001, \HBFFF,
                          \HC000, \HC001, \HFFFE, \HFFFF}}
    \cup {<<0, 1>>, <<\H0201, 1>>, UINT_MAX}

WParams ==
    {<<a, 0, 0, 0>> : a \in SmallHalves \cup {4, 5, \H41}}
    \cup {<<\H20, 1, 0, 0>>, <<7, 0, 1, \H8000>>}

LParams ==
    {<<a, b, 0, 0>> : a \in {0, 10, \HFFFF}, b \in {0, 20, \HFFFF}}
    \cup {<<0, \H1E00, 0, 0>>, <<10, 20, 1, \H8000>>, <<3, \HC12A, 0, 0>>}

(***************************************************************************)
(* The state machine: a caller holds one raw triple, parses it, and may    *)
(* call as_key and as_mouse_button (any number of times, in any order) on  *)
(* the typed message, read the accessors of a KeyMessage's info, and match *)
(* on the params of an NcCalcSize.                                         *)
(***************************************************************************)
NotCalled == [called |-> FALSE]

Returned(r) == [called |-> TRUE, ret |-> r]

Init ==
    /\ msg \in MsgIds
    /\ w_param \in WParams
    /\ l_param \in LParams
    /\ pc = "raw"
    /\ event = [kind |-> "none"]
    /\ key = NotCalled
    /\ mouse = NotCalled
    /\ info = NotCalled
    /\ ncsize = NotCalled

Parse ==
    /\ pc = "raw"
    /\ event' \in parse(msg, w_param, l_param)
    /\ pc' = "parsed"
    /\ UNCHANGED <<msg, w_param, l_param, key, mouse, info, ncsize>>

AsKey ==
    /\ pc = "parsed"
    /\ event.kind = "Message"
    /\ key' = Returned(as_key(event.typed))
    /\ UNCHANGED <<msg, w_param, l_param, pc, event, mouse, info, ncsize>>

AsMouseButton ==
    /\ pc = "parsed"
    /\ event.kind = "Message"
    /\ mouse' = Returned(as_mouse_button(event.typed))
    /\ UNCHANGED <<msg, w_param, l_param, pc, event, key, info, ncsize>>

ReadKeyInfo ==
    /\ key.called
    /\ key.ret.some
    /\ info' = Returned(KeyInfoFields(key.ret.val.info))
    /\ UNCHANGED <<msg, w_param, l_param, pc, event, key, mouse, ncsize>>

MatchNcSizeParams ==
    /\ pc = "parsed"
    /\ event.kind = "Message"
    /\ event.typed.variant = "NcCalcSize"
    /\ ncsize' \in {Returned(p) : p \in NcSizeParams(Field(event.typed, "params"))}
    /\ UNCHANGED <<msg, w_param, l_param, pc, event, key, mouse, info>>

Next == Parse \/ AsKey \/ AsMouseButton \/ ReadKeyInfo \/ MatchNcSizeParams

Spec == Init /\ [][Next]_vars

(***************************************************************************)
(* Properties                                                              *)
(***************************************************************************)
\* msg is in the System band and is the discriminant of a variant
KnownId == msg[2] = 0 /\ msg[1] \in Discriminants

\* the band the ranges of the specification assign to msg
BandByRange ==
    IF msg[2] = 0 /\ msg[1] <= \H03FF THEN "Message"
    ELSE IF msg[2] = 0 /\ msg[1] <= \H7FFF THEN "User"
    ELSE IF msg[2] = 0 /\ msg[1] <= \HBFFF THEN "App"
    ELSE IF msg[2] = 0 /\ msg[1] <= \HFFFE THEN "String"
    ELSE "Reserved"

\* msg - 0xFFFF for msg >= 0xFFFF, half-word by half-word
MsgLessReservedBase ==
    IF msg[1] = \HFFFF THEN <<0, msg[2]>> ELSE <<msg[1] + 1, msg[2] - 1>>

\* C1: parse selects the band by range (Message [0,0x03FF], User
\* [0x0400,0x7FFF], App [0x8000,0xBFFF], String [0xC000,0xFFFE], Reserved
\* [0xFFFF,0xFFFFFFFF]), and User, App and Reserved carry the id less the
\* band's lower bound with both parameter words unchanged.
C1_BandByRange ==
    pc = "parsed" =>
        /\ event.kind = BandByRange
        /\ event.kind = "User" =>
               event.raw = [msg |-> <<msg[1] - \H0400, 0>>,
                            w_param |-> w_param, l_param |-> l_param]
        /\ event.kind = "App" =>
               event.raw = [msg |-> <<msg[1] - \H8000, 0>>,
                            w_param |-> w_param, l_param |-> l_param]
        /\ event.kind = "Reserved" =>
               event.raw = [msg |-> MsgLessReservedBase,
                            w_param |-> w_param, l_param |-> l_param]

\* parse(0x0400 + 7, a, b) with a word a that uses its upper half
C1_Witness ==
    /\ pc = "parsed"
    /\ msg = <<\H0407, 0>>
    /\ w_param = <<7, 0, 1, \H8000>>
    /\ event.kind = "User"
    /\ event.raw.msg = <<7, 0>>

\* C2: for an id of the String band [0xC000,0xFFFE] parse yields
\* String(RawEvent) with msg = id - 0xC000.
C2_StringRebase ==
    (pc = "parsed" /\ msg[2] = 0 /\ msg[1] >= \HC000 /\ msg[1] <= \HFFFE) =>
        /\ event.kind = "String"
        /\ event.raw.msg = <<msg[1] - \HC000, 0>>

\* C3: an id of the System band that is no discriminant decodes to an
\* explicit Unknown outcome carrying the (id, param_a, param_b) triple.
C3_UnknownOutcome ==
    (pc = "parsed" /\ msg[2] = 0 /\ msg[1] <= \H03FF /\ ~KnownId) =>
        /\ event.kind = "Unknown"
        /\ event.raw = [msg |-> msg, w_param |-> w_param, l_param |-> l_param]

\* the typed message holds an enumeration field whose bits are outside the
\* enumeration's closed set
HoldsOutOfSetEnum ==
    /\ event.kind = "Message"
    /\ \E e \in EnumFields :
           /\ event.typed.variant = e[1]
           /\ Field(event.typed, e[2]) \notin e[3]

\* C4: a recognized tag whose enumerated sub-field is outside the closed set
\* decodes to an InvalidEnumValue error; no typed message ever holds an
\* out-of-set value in an enumerated field.
C4_InvalidEnumValue ==
    (pc = "parsed" /\ KnownId) =>
        /\ (msg[1] = \H0005 /\ w_param \notin WindowResizing) =>
               event.kind = "InvalidEnumValue"
        /\ (msg[1] = \H0218 /\ w_param \notin PowerEvent) =>
               event.kind = "InvalidEnumValue"
        /\ ~HoldsOutOfSetEnum

\* no two variants share a discriminant
OneVariantPerDiscriminant ==
    \A i, j \in DOMAIN WindowMessageTable :
        WindowMessageTable[i][2] = WindowMessageTable[j][2] => i = j

\* C5: for an id that is the discriminant of a variant, parse yields
\* Message(m) with m the one variant whose discriminant is the id, whatever
\* the parameter words; parse(0, 0, 0) yields Message(Null).
C5_KnownTag ==
    (pc = "parsed" /\ KnownId) =>
        /\ event.kind = "Message"
        /\ event.typed.variant \in Variants
        /\ DiscriminantOf(event.typed.variant) = msg[1]
        /\ OneVariantPerDiscriminant
        /\ msg[1] = 0 => event.typed.variant = "Null"
        /\ msg[1] = \H0201 => event.typed.variant = "LButtonDown"

\* a payload-free and a payload-carrying tag are both reached
C5_Witness ==
    /\ pc = "parsed"
    /\ msg = <<\H0005, 0>>
    /\ w_param = <<5, 0, 0, 0>>
    /\ event.kind = "Message"
    /\ event.typed.variant = "Size"

\* the six sub-fields of a packed key state by division of its half-words
KeyStateByArithmetic(v) ==
    [repeat_count |-> v[1],
     scan_code |-> v[2] % 256,
     extended |-> (v[2] \div 256) % 2 = 1,
     context_code |-> (v[2] \div 8192) % 2 = 1,
     previous_state |-> (v[2] \div 16384) % 2 = 1,
     transition_state |-> (v[2] \div 32768) % 2 = 1]

\* u and v differ at most in bits 25-28 and bits 32-63
SameButReserved(u, v) ==
    /\ u[1] = v[1]
    /\ u[2] - ((u[2] \div 512) % 16) * 512 = v[2] - ((v[2] \div 512) % 16) * 512

\* C6: the accessors return repeat_count = bits 0-15, scan_code = bits 16-23,
\* extended = bit 24, context_code = bit 29, previous_state = bit 30,
\* transition_state = bit 31; values that differ only in bits 25-28 or 32-63
\* decode alike; 0 decodes to all zero/false and 0xFFFFFFFF to 0xFFFF, 0xFF
\* and every flag true.
C6_KeyInfoBits ==
    info.called =>
        LET v == key.ret.val.info IN
        /\ info.ret = KeyStateByArithmetic(v)
        /\ \A u \in LParams : SameButReserved(u, v) => KeyInfoFields(u) = info.ret
        /\ (v[1] = 0 /\ v[2] = 0) =>
               info.ret = [repeat_count |-> 0, scan_code |-> 0,
                           extended |-> FALSE, context_code |-> FALSE,
                           previous_state |-> FALSE, transition_state |-> FALSE]
        /\ (v[1] = \HFFFF /\ v[2] = \HFFFF) =>
               info.ret = [repeat_count |-> \HFFFF, scan_code |-> \HFF,
                           extended |-> TRUE, context_code |-> TRUE,
                           previous_state |-> TRUE, transition_state |-> TRUE]

\* 0xC12A0003: repeat 3, scan code 0x2A, extended, previous and transition set
C6_Witness ==
    /\ info.called
    /\ key.ret.val.info = <<3, \HC12A, 0, 0>>
    /\ info.ret.scan_code = \H2A
    /\ info.ret.extended
    /\ ~info.ret.context_code

\* C7: as_key returns a value exactly for KeyDown, KeyUp, SysKeyDown and
\* SysKeyUp; up iff the tag is KeyUp or SysKeyUp, sys iff it is SysKeyDown or
\* SysKeyUp, code = param_a, info = the packed key-state decode of param_b.
C7_AsKey ==
    key.called =>
        LET tag == event.typed.variant IN
        /\ key.ret.some <=> tag \in {"KeyDown", "KeyUp", "SysKeyDown", "SysKeyUp"}
        /\ KnownId => (key.ret.some <=> msg[1] \in {\H0100, \H0101, \H0104, \H0105})
        /\ key.ret.some =>
               /\ key.ret.val.up = (tag \in {"KeyUp", "SysKeyUp"})
               /\ key.ret.val.sys = (tag \in {"SysKeyDown", "SysKeyUp"})
               /\ key.ret.val.code = w_param
               /\ key.ret.val.info = l_param
               /\ info.called => info.ret = KeyStateByArithmetic(l_param)
        /\ msg = <<\H0100, 0>> =>
               /\ key.ret.some
               /\ ~key.ret.val.up
               /\ ~key.ret.val.sys

\* parse(0x0100, 0x41, packed) then as_key and the accessors
C7_Witness ==
    /\ msg = <<\H0100, 0>>
    /\ w_param = <<\H41, 0, 0, 0>>
    /\ l_param = <<3, \HC12A, 0, 0>>
    /\ key.called
    /\ key.ret.some
    /\ key.ret.val.code = <<\H41, 0, 0, 0>>
    /\ info.called

\* the action and button the name of a mouse-button tag states
ActionOfTag(tag) ==
    CASE tag \in {"LButtonDown", "RButtonDown", "MButtonDown", "XButtonDown"} -> "Down"
      [] tag \in {"LButtonUp", "RButtonUp", "MButtonUp", "XButtonUp"} -> "Up"
      [] OTHER -> "DoubleClick"

ButtonOfTag(tag) ==
    CASE tag \in {"LButtonDown", "LButtonUp", "LButtonDblClk"} -> "Left"
      [] tag \in {"RButtonDown", "RButtonUp", "RButtonDblClk"} -> "Right"
      [] OTHER -> "Middle"

LRMTags ==
    {"LButtonDown", "LButtonUp", "LButtonDblClk",
     "RButtonDown", "RButtonUp", "RButtonDblClk",
     "MButtonDown", "MButtonUp", "MButtonDblClk"}

XTags == {"XButtonDown", "XButtonUp", "XButtonDblClk"}

\* param_b's two low half-words as signed 16-bit numbers
PosOfLParam ==
    [x |-> IF l_param[1] >= 32768 THEN l_param[1] - 65536 ELSE l_param[1],
     y |-> IF l_param[2] >= 32768 THEN l_param[2] - 65536 ELSE l_param[2]]

\* C8: as_mouse_button returns a value exactly for the twelve
\* {L,R,M,X}Button{Down,Up,DblClk} tags; for the nine L/R/M tags action and
\* button match the tag name, modifiers = param_a and pos = the message's
\* position; parse(0x0201, 1, pack(10, 20)) gives LButtonDown{1, {10, 20}} and
\* as_mouse_button {Down, Left, {10, 20}, 1}.
C8_AsMouseButton ==
    mouse.called =>
        LET tag == event.typed.variant IN
        /\ mouse.ret.some <=> tag \in LRMTags \cup XTags
        /\ KnownId =>
               (mouse.ret.some <=>
                    (msg[1] >= \H0201 /\ msg[1] <= \H020D /\ msg[1] # \H020A))
        /\ tag \in LRMTags =>
               /\ mouse.ret.val.action = ActionOfTag(tag)
               /\ mouse.ret.val.button = <<ButtonOfTag(tag)>>
               /\ mouse.ret.val.modifiers = w_param
               /\ mouse.ret.val.pos = PosOfLParam
               /\ mouse.ret.val.pos = MousePos(Field(event.typed, "pos"))
        /\ (msg = <<\H0201, 0>> /\ w_param = <<1, 0, 0, 0>>
                /\ l_param = <<10, 20, 0, 0>>) =>
               /\ tag = "LButtonDown"
               /\ Field(event.typed, "modifiers") = <<1, 0, 0, 0>>
               /\ mouse.ret.val = [action |-> "Down", button |-> <<"Left">>,
                                   pos |-> [x |-> 10, y |-> 20],
                                   modifiers |-> <<1, 0, 0, 0>>]

\* parse(0x0201, 0x0001, pack(x=10, y=20)) then as_mouse_button
C8_Witness ==
    /\ msg = <<\H0201, 0>>
    /\ w_param = <<1, 0, 0, 0>>
    /\ l_param = <<10, 20, 0, 0>>
    /\ mouse.called
    /\ mouse.ret.some
    /\ mouse.ret.val.pos = [x |-> 10, y |-> 20]

\* C9: for XButtonDown, XButtonUp and XButtonDblClk, parse then
\* as_mouse_button yields button = X(high half of param_a), the action of the
\* tag, and modifiers = the low half of param_a.
C9_XButton ==
    (mouse.called /\ msg[2] = 0 /\ msg[1] \in {\H020B, \H020C, \H020D}) =>
        /\ mouse.ret.some
        /\ mouse.ret.val.action = ActionOfTag(event.typed.variant)
        /\ mouse.ret.val.button = <<"X", w_param[2]>>
        /\ mouse.ret.val.modifiers = <<w_param[1], 0, 0, 0>>

\* C10: at most one of as_key and as_mouse_button is Some; for a tag in
\* neither family both are None; a call returns what an earlier call on the
\* same value returned.
C10_Exclusive ==
    /\ (key.called /\ mouse.called) =>
           /\ ~(key.ret.some /\ mouse.ret.some)
           /\ event.typed.variant \notin
                  ({"KeyDown", "KeyUp", "SysKeyDown", "SysKeyUp"} \cup LRMTags \cup XTags)
                  => (~key.ret.some /\ ~mouse.ret.some)
    /\ key.called => as_key(event.typed) = key.ret
    /\ mouse.called => as_mouse_button(event.typed) = mouse.ret

\* both summaries taken of one mouse message: only as_mouse_button answers
C10_Witness ==
    /\ key.called
    /\ mouse.called
    /\ event.typed.variant = "RButtonUp"
    /\ ~key.ret.some
    /\ mouse.ret.some

\* the tags whose payload has a pos field
PosTags ==
    {"NcHitTest", "NcMouseMove", "MouseMove", "MouseHover",
     "MouseWheel", "MouseHWheel"} \cup LRMTags \cup XTags

\* C11: for every tag that carries a position payload and for all parameter
\* words, the decoded pos is {x: bits 0-15 of param_b as a signed 16-bit
\* integer, y: bits 16-31 of param_b as a signed 16-bit integer}; param_a
\* never influences pos.
C11_PosFromLParam ==
    (pc = "parsed" /\ KnownId /\ event.typed.variant \in PosTags) =>
        MousePos(Field(event.typed, "pos")) = PosOfLParam

\* C12: for WM_NCCALCSIZE the decoded params is chosen by param_a alone:
\* TRUE (1) yields ValidClientArea and FALSE (0) yields Rect, in both with
\* data absent iff param_b = 0 and otherwise the address param_b unchanged;
\* no other value of param_a yields either of the two cases.
C12_NcCalcSize ==
    ncsize.called =>
        /\ (ncsize.ret.case = "ValidClientArea") <=> (w_param = <<1, 0, 0, 0>>)
        /\ (ncsize.ret.case = "Rect") <=> (w_param = <<0, 0, 0, 0>>)
        /\ ncsize.ret.data =
               IF l_param = <<0, 0, 0, 0>> THEN [some |-> FALSE]
               ELSE [some |-> TRUE, val |-> l_param]

====
